---- MODULE Spec2Model ----
(***************************************************************************)
(* Model of src/action.py: the channel/repository validator of             *)
(* packagecontrol/st-schema-reviewer-action.                               *)
(*                                                                         *)
(* Strings whose characters matter (entity names) are sequences of         *)
(* one-character strings; Ord gives the code point of a character, so      *)
(* str.lower, str.isdigit and Python's string ordering are computed.       *)
(***************************************************************************)
EXTENDS Integers, Sequences, FiniteSets, TLC

VARIABLES
    package_names,            \* TestContainer.package_names
    dependency_names,         \* TestContainer.dependency_names
    previous_package_names,   \* TestContainer.previous_package_names
    last,                     \* the check that ran last: input, registry before, outcome
    nchecks,                  \* number of checks run so far
    source,                   \* what the content source returns for each file
    stack,                    \* the active _include_tests generators, innermost last
    checks,                   \* the (method, params) pairs yielded so far
    stream,                   \* what was written to the diagnostic stream
    skipped_repositories,     \* ChannelTests.skipped_repositories
    status,                   \* "running", "done", or "raised" when an exception left the generator
    call,                     \* the arguments of one _test_release call
    verdict,                  \* what that call did: "none" before it ran
    attrs,                    \* the registry attributes each class object carries
    alone,                    \* per test class: the registry it would have, had it run alone
    ran,                      \* the check a test class ran last, and its outcome
    cls_dict,                 \* cls.__dict__ of the class being decorated
    todo,                     \* the attribute names the outer loop has still to look at
    loop_name,                \* the variable "name" of generate_test_methods
    yielded,                  \* the (method, params) pairs the generators yielded
    at                        \* where generate_test_methods is: "idle", "names", "yields", "returned"

registryVars == <<package_names, dependency_names, previous_package_names, last, nchecks>>

walkVars == <<source, stack, checks, stream, skipped_repositories, status>>

releaseVars == <<call, verdict>>

runVars == <<attrs, alone, ran>>

harnessVars == <<cls_dict, todo, loop_name, yielded, at>>

vars == <<registryVars, walkVars, releaseVars, runVars, harnessVars>>

NoRelease == [data |-> [keys |-> {}], dependency |-> FALSE, main_repo |-> FALSE]

NoVerdict == [keys |-> "none", values |-> "none"]

None == "None"

----------------------------------------------------------------------------
(* Bounds *)

MaxNames == 2      \* entities declared in one include file
MaxPrev == 1       \* entries of one previous_names list
MaxChecks == 2     \* registry checks of mixed kinds in one run
MaxFiles == 1      \* include files of a run that only checks package name sets

----------------------------------------------------------------------------
(* Characters and strings *)

CharCodes ==
    [c \in {"1", "A", "B", "a", "b", "c"} |->
        CASE c = "1" -> 49
          [] c = "A" -> 65
          [] c = "B" -> 66
          [] c = "a" -> 97
          [] c = "b" -> 98
          [] c = "c" -> 99]

Ord(c) == CharCodes[c]

Chr(n) == CHOOSE c \in DOMAIN CharCodes : CharCodes[c] = n

\* str.lower on one character (ASCII range)
LowerChar(c) == IF Ord(c) >= 65 /\ Ord(c) <= 90 THEN Chr(Ord(c) + 32) ELSE c

\* str.lower
Lower(s) == [i \in DOMAIN s |-> LowerChar(s[i])]

\* str.isdigit on one character
IsDigit(c) == Ord(c) >= 48 /\ Ord(c) <= 57

\* Python's < on str: lexicographic by code point
RECURSIVE StrLess(_, _)
StrLess(s, t) ==
    IF Len(s) = 0 THEN Len(t) > 0
    ELSE IF Len(t) = 0 THEN FALSE
    ELSE IF Ord(Head(s)) # Ord(Head(t)) THEN Ord(Head(s)) < Ord(Head(t))
    ELSE StrLess(Tail(s), Tail(t))

\* a sort by the names as written
SortKeyCaseSensitive(s) == s

\* key function of sorted(..., key=str.lower)
SortKey(s) == Lower(s)

\* insertion into a list already sorted by SortKey, after every element
\* that is not greater (sorted() is stable)
RECURSIVE InsertSorted(_, _)
InsertSorted(x, xs) ==
    IF Len(xs) = 0 THEN <<x>>
    ELSE IF StrLess(SortKey(x), SortKey(Head(xs))) THEN <<x>> \o xs
    ELSE <<Head(xs)>> \o InsertSorted(x, Tail(xs))

RECURSIVE SortedByLower(_)
SortedByLower(xs) ==
    IF Len(xs) = 0 THEN <<>>
    ELSE InsertSorted(xs[Len(xs)], SortedByLower(SubSeq(xs, 1, Len(xs) - 1)))

----------------------------------------------------------------------------
(* CaseInsensitiveDict: a function whose domain holds lower-cased keys *)

EmptyDict == <<>>

_k(key) == Lower(key)

\* dict.__contains__ without the lower-casing of the key
ContainsExact(d, key) == key \in DOMAIN d

\* CaseInsensitiveDict.__contains__
Contains(d, key) == _k(key) \in DOMAIN d

GetItem(d, key) == d[_k(key)]

SetItem(d, key, value) ==
    [x \in DOMAIN d \cup {_k(key)} |-> IF x = _k(key) THEN value ELSE d[x]]

----------------------------------------------------------------------------
(* Entities *)

Names == { <<"a", "b">>, <<"A", "c">>, <<"A", "B">>, <<"1", "a">> }

DetailsUrls == { <<"https://github.com", "owner", <<"a", "c">> >> }

\* a package or dependency object: keys holds the keys that are present; the
\* value of an absent key is <<>> and is never read
Entities ==
    { [keys |-> {"name"}, name |-> n, details |-> <<>>] : n \in Names }
        \cup { [keys |-> {"details"}, name |-> <<>>, details |-> d] : d \in DetailsUrls }
        \cup { [keys |-> {}, name |-> <<>>, details |-> <<>>] }

\* data.get("name") is falsy: the key is absent or its value is ""
NameFalsy(data) == "name" \notin data.keys \/ Len(data.name) = 0

\* data.get("details").strip(...) raises AttributeError on None
NameRaises(data) == NameFalsy(data) /\ "details" \notin data.keys

\* the details url is held as its "/"-separated parts, the last one a name
get_package_name(data) ==
    IF ~NameFalsy(data) THEN data.name ELSE data.details[Len(data.details)]


----------------------------------------------------------------------------
(* Include files and check outcomes *)

LowercaseLetters ==
    {"a", "b", "c", "d", "e", "f", "g", "h", "i", "j", "k", "l", "m",
     "n", "o", "p", "q", "r", "s", "t", "u", "v", "w", "x", "y", "z"}

\* an include path, split into the last path component's stem and extension
Includes ==
    { [stem |-> "0-9", ext |-> ".json"],
      [stem |-> "a", ext |-> ".json"],
      [stem |-> "dependencies", ext |-> ".json"],
      [stem |-> "a", ext |-> ".txt"] }

\* re.search(r"(?:^|/)(0-9|[a-z]|dependencies)\.json$", include): group 1,
\* or None when there is no match
IncludeLetter(include) ==
    IF include.ext = ".json"
       /\ (include.stem = "0-9" \/ include.stem \in LowercaseLetters
           \/ include.stem = "dependencies")
    THEN include.stem
    ELSE None

Passed == [status |-> "pass", kind |-> None, cited |-> <<>>]

\* self.fail / a failed assertion; cited is <<p>> when the message quotes the
\* provenance p and <<>> when it quotes none
Failed(kind, cited) == [status |-> "fail", kind |-> kind, cited |-> cited]

\* an exception other than AssertionError raised inside the test method
Errored(kind) == [status |-> "error", kind |-> kind, cited |-> <<>>]

SeqsUpTo(S, n) == UNION { [1..k -> S] : k \in 0..n }

----------------------------------------------------------------------------
(* TestContainer._test_repository_package_names *)

\* the loop over data["packages"]; returns the registry, the names appended
\* to repo_package_names and the failure that ended the loop (Passed when it
\* ran to the end)
RECURSIVE PackageNamesLoop(_, _, _, _, _, _, _)
PackageNamesLoop(pdatas, i, include, pn, prev, dn, repo) ==
    IF i > Len(pdatas)
    THEN [package_names |-> pn, repo |-> repo, outcome |-> Passed]
    ELSE IF NameRaises(pdatas[i])
    THEN [package_names |-> pn, repo |-> repo, outcome |-> Errored("AttributeError")]
    ELSE LET pname == get_package_name(pdatas[i]) IN
        IF Contains(pn, pname)
        THEN [package_names |-> pn, repo |-> repo,
              outcome |-> Failed("uniqueness", <<GetItem(pn, pname)>>)]
        ELSE IF Contains(prev, pname) /\ pname = GetItem(prev, pname)[1]
        THEN [package_names |-> pn, repo |-> repo,
              outcome |-> Failed("uniqueness", <<GetItem(prev, pname)[2]>>)]
        ELSE IF Contains(dn, pname)
        THEN [package_names |-> pn, repo |-> repo,
              outcome |-> Failed("uniqueness", <<GetItem(dn, pname)>>)]
        ELSE PackageNamesLoop(pdatas, i + 1, include,
                              SetItem(pn, pname, include), prev, dn,
                              Append(repo, pname))

\* "Check if in the correct file": the first name that fails the assertion
RECURSIVE CorrectFileLoop(_, _, _)
CorrectFileLoop(repo, i, letter) ==
    IF i > Len(repo) THEN Passed
    ELSE IF Len(repo[i]) = 0 THEN Errored("IndexError")
    ELSE IF letter = "0-9"
    THEN IF IsDigit(repo[i][1]) THEN CorrectFileLoop(repo, i + 1, letter)
         ELSE Failed("wrongfile", <<>>)
    ELSE IF LowerChar(repo[i][1]) = letter THEN CorrectFileLoop(repo, i + 1, letter)
         ELSE Failed("wrongfile", <<>>)

\* "Check package order"
OrderCheck(repo) == IF repo = SortedByLower(repo) THEN Passed ELSE Failed("order", <<>>)

_test_repository_package_names(include, pdatas, pn, prev, dn) ==
    LET letter == IncludeLetter(include) IN
    IF letter = None
    THEN [package_names |-> pn, outcome |-> Failed("filename", <<>>)]
    ELSE LET r == PackageNamesLoop(pdatas, 1, include, pn, prev, dn, <<>>) IN
        IF r.outcome # Passed
        THEN [package_names |-> r.package_names, outcome |-> r.outcome]
        ELSE IF CorrectFileLoop(r.repo, 1, letter) # Passed
        THEN [package_names |-> r.package_names,
              outcome |-> CorrectFileLoop(r.repo, 1, letter)]
        ELSE [package_names |-> r.package_names, outcome |-> OrderCheck(r.repo)]

----------------------------------------------------------------------------
(* TestContainer._test_dependency_names *)

RECURSIVE DependencyNamesLoop(_, _, _, _, _, _)
DependencyNamesLoop(ddatas, i, include, dn, pn, repo) ==
    IF i > Len(ddatas)
    THEN [dependency_names |-> dn, repo |-> repo, outcome |-> Passed]
    ELSE IF NameRaises(ddatas[i])
    THEN [dependency_names |-> dn, repo |-> repo, outcome |-> Errored("AttributeError")]
    ELSE LET name == get_package_name(ddatas[i]) IN
        IF Contains(dn, name)
        THEN [dependency_names |-> dn, repo |-> repo,
              outcome |-> Failed("uniqueness", <<>>)]
        ELSE IF Contains(pn, name)
        THEN [dependency_names |-> SetItem(dn, name, include), repo |-> Append(repo, name),
              outcome |-> Failed("uniqueness", <<GetItem(pn, name)>>)]
        ELSE DependencyNamesLoop(ddatas, i + 1, include,
                                 SetItem(dn, name, include), pn, Append(repo, name))

_test_dependency_names(include, ddatas, dn, pn) ==
    IF IncludeLetter(include) = None
    THEN [dependency_names |-> dn, outcome |-> Failed("filename", <<>>)]
    ELSE LET r == DependencyNamesLoop(ddatas, 1, include, dn, pn, <<>>) IN
        IF r.outcome # Passed
        THEN [dependency_names |-> r.dependency_names, outcome |-> r.outcome]
        ELSE [dependency_names |-> r.dependency_names, outcome |-> OrderCheck(r.repo)]

----------------------------------------------------------------------------
(* TestContainer._test_package, for a package whose keys other than        *)
(* "previous_names" pass their assertions                                  *)

RECURSIVE PreviousNamesLoop(_, _, _, _, _, _)
PreviousNamesLoop(v, i, include, name, prev, pn) ==
    IF i > Len(v) THEN [previous_package_names |-> prev, outcome |-> Passed]
    ELSE IF Contains(prev, v[i])
    THEN [previous_package_names |-> prev,
          outcome |-> Failed("uniqueness", <<GetItem(prev, v[i])[2]>>)]
    ELSE IF Contains(pn, v[i])
    THEN [previous_package_names |-> prev,
          outcome |-> Failed("uniqueness", <<GetItem(pn, v[i])>>)]
    ELSE PreviousNamesLoop(v, i + 1, include, name,
                           SetItem(prev, v[i], <<v[i], include, name>>), pn)

_test_package(include, data, prev, pn) ==
    IF NameRaises(data)
    THEN [previous_package_names |-> prev, outcome |-> Errored("AttributeError")]
    ELSE IF "previous_names" \notin data.keys
    THEN [previous_package_names |-> prev, outcome |-> Passed]
    ELSE PreviousNamesLoop(data.previous_names, 1, include,
                           get_package_name(data), prev, pn)

----------------------------------------------------------------------------
(* One validation run: the registry checks, called in any order *)

\* package objects given to _test_package
PackageObjects ==
    { [keys |-> e.keys, name |-> e.name, details |-> e.details, previous_names |-> <<>>] :
        e \in Entities }
    \cup
    { [keys |-> e.keys \cup {"previous_names"}, name |-> e.name, details |-> e.details,
       previous_names |-> v] : e \in Entities, v \in SeqsUpTo(Names, MaxPrev) }

Registry ==
    [package_names |-> package_names,
     dependency_names |-> dependency_names,
     previous_package_names |-> previous_package_names]

NoCheck ==
    [op |-> "none", include |-> [stem |-> "", ext |-> ""], data |-> <<>>,
     pre |-> [package_names |-> EmptyDict, dependency_names |-> EmptyDict,
              previous_package_names |-> EmptyDict],
     outcome |-> Passed]

\* the objects that can carry the registry attributes
ClassObjects == {"TestContainer", "ChannelTests", "RepositoryTests"}

\* the two decorated test classes
TestClasses == {"ChannelTests", "RepositoryTests"}

\* a class object before setUpClass gave it the three attributes
Unset ==
    [set |-> FALSE, package_names |-> EmptyDict, dependency_names |-> EmptyDict,
     previous_package_names |-> EmptyDict]

NoRun == [cls |-> "none", op |-> "none", outcome |-> Passed, alone |-> Passed]

\* no test class has been set up
IdleRuns ==
    /\ attrs = [c \in ClassObjects |-> Unset]
    /\ alone = [c \in TestClasses |-> Unset]
    /\ ran = NoRun
    /\ cls_dict = <<>>
    /\ todo = <<>>
    /\ loop_name = <<>>
    /\ yielded = <<>>
    /\ at = "idle"

\* TestContainer.setUpClass
InitRegistry ==
    /\ package_names = EmptyDict
    /\ dependency_names = EmptyDict
    /\ previous_package_names = EmptyDict
    /\ last = NoCheck
    /\ nchecks = 0
    /\ source = <<>>
    /\ stack = <<>>
    /\ checks = <<>>
    /\ stream = <<>>
    /\ skipped_repositories = <<>>
    /\ status = "done"
    /\ call = NoRelease
    /\ verdict = NoVerdict
    /\ IdleRuns

TestRepositoryPackageNames ==
    /\ \E include \in Includes, pdatas \in SeqsUpTo(Entities, MaxNames) :
        LET r == _test_repository_package_names(include, pdatas, package_names,
                     previous_package_names, dependency_names) IN
        /\ package_names' = r.package_names
        /\ last' = [op |-> "package_names", include |-> include, data |-> pdatas,
                    pre |-> Registry, outcome |-> r.outcome]
    /\ UNCHANGED <<dependency_names, previous_package_names, walkVars, releaseVars, runVars, harnessVars>>

TestDependencyNames ==
    /\ \E include \in Includes, ddatas \in SeqsUpTo(Entities, MaxNames) :
        LET r == _test_dependency_names(include, ddatas, dependency_names,
                     package_names) IN
        /\ dependency_names' = r.dependency_names
        /\ last' = [op |-> "dependency_names", include |-> include, data |-> ddatas,
                    pre |-> Registry, outcome |-> r.outcome]
    /\ UNCHANGED <<package_names, previous_package_names, walkVars, releaseVars, runVars, harnessVars>>

TestPackage ==
    /\ \E include \in Includes, data \in PackageObjects :
        LET r == _test_package(include, data, previous_package_names, package_names) IN
        /\ previous_package_names' = r.previous_package_names
        /\ last' = [op |-> "package", include |-> include, data |-> <<data>>,
                    pre |-> Registry, outcome |-> r.outcome]
    /\ UNCHANGED <<package_names, dependency_names, walkVars, releaseVars, runVars, harnessVars>>

\* the checks of one run in any order
NextRegistry ==
    /\ nchecks < MaxChecks
    /\ nchecks' = nchecks + 1
    /\ \/ TestRepositoryPackageNames
       \/ TestDependencyNames
       \/ TestPackage

SpecRegistry == InitRegistry /\ [][NextRegistry]_vars

\* the include files of one run, checked by _test_repository_package_names
\* one after the other
NextPackageNames ==
    /\ nchecks < MaxFiles
    /\ nchecks' = nchecks + 1
    /\ TestRepositoryPackageNames

SpecPackageNames == InitRegistry /\ [][NextPackageNames]_vars

----------------------------------------------------------------------------
(* Claims about the name registry *)

RegisteredKeys(reg) ==
    DOMAIN reg.package_names \cup DOMAIN reg.dependency_names
        \cup DOMAIN reg.previous_package_names

Provenances(reg) ==
    { reg.package_names[k] : k \in DOMAIN reg.package_names }
        \cup { reg.dependency_names[k] : k \in DOMAIN reg.dependency_names }
        \cup { reg.previous_package_names[k][2] : k \in DOMAIN reg.previous_package_names }

\* the names, in the role the check gives them, that a check was handed
InputNames(check) ==
    IF check.op = "package"
    THEN { check.data[1].previous_names[i] : i \in DOMAIN check.data[1].previous_names }
    ELSE { get_package_name(check.data[i]) :
             i \in { j \in DOMAIN check.data : ~NameRaises(check.data[j]) } }

\* C1: when a check that got as far as its names is handed a name that an
\* earlier check of the run registered (in any role, compared
\* case-insensitively), it fails with a uniqueness error that quotes a
\* provenance.
C1_NameUniqueness ==
    (last.op # "none" /\ last.outcome.kind \notin {"filename", "AttributeError"})
    => \A n \in InputNames(last) :
          Lower(n) \in RegisteredKeys(last.pre)
          => /\ last.outcome.status = "fail"
             /\ last.outcome.kind = "uniqueness"
             /\ Len(last.outcome.cited) = 1
             /\ last.outcome.cited[1] \in Provenances(last.pre) \cup {last.include}

\* C2: no key is in more than one of package_names, dependency_names and
\* previous_package_names, whether the last check passed or failed.
C2_RegistryDisjoint ==
    /\ DOMAIN package_names \cap DOMAIN dependency_names = {}
    /\ DOMAIN package_names \cap DOMAIN previous_package_names = {}
    /\ DOMAIN dependency_names \cap DOMAIN previous_package_names = {}

----------------------------------------------------------------------------
(* Claims about the package name set of one include file *)

\* every entity of the file has a name, no two of them the same key, and none
\* is registered yet
NoConflict(check) ==
    /\ \A i \in DOMAIN check.data : ~NameRaises(check.data[i])
    /\ \A i, j \in DOMAIN check.data :
          i # j => Lower(get_package_name(check.data[i]))
                     # Lower(get_package_name(check.data[j]))
    /\ \A i \in DOMAIN check.data :
          Lower(get_package_name(check.data[i])) \notin RegisteredKeys(check.pre)

FileNames(check) == [i \in DOMAIN check.data |-> get_package_name(check.data[i])]

StartsInBucket(name, stem) ==
    /\ Len(name) > 0
    /\ IF stem = "0-9" THEN Ord(name[1]) \in 48..57
       ELSE IF stem \in LowercaseLetters THEN Lower(name)[1] = stem
       ELSE FALSE

InOrder(names) ==
    \A i, j \in DOMAIN names : i < j => ~StrLess(Lower(names[j]), Lower(names[i]))

ExpectedPass(check, stems) ==
    /\ check.include.ext = ".json"
    /\ check.include.stem \in stems
    /\ \A i \in DOMAIN check.data : StartsInBucket(FileNames(check)[i], check.include.stem)
    /\ InOrder(FileNames(check))

\* C10 as amended: for a file without uniqueness conflict the check passes
\* exactly when the file name is 0-9.json, <letter>.json or dependencies.json,
\* every name starts with a digit (0-9) or the letter (no name fits
\* dependencies.json), and the names are in case-insensitive order.
C10_PackageNameSet ==
    (last.op = "package_names" /\ NoConflict(last))
    => ((last.outcome.status = "pass")
        <=> ExpectedPass(last, {"0-9", "dependencies"} \cup LowercaseLetters))

\* C10 as stated: the file name must be 0-9.json or <letter>.json
C10_Original ==
    (last.op = "package_names" /\ NoConflict(last))
    => ((last.outcome.status = "pass")
        <=> ExpectedPass(last, {"0-9"} \cup LowercaseLetters))

\* two names in one bucket that only a case-insensitive comparison orders,
\* accepted
C10_Witness ==
    /\ last.op = "package_names"
    /\ NoConflict(last)
    /\ FileNames(last) = << <<"a", "b">>, <<"A", "c">> >>
    /\ last.include.stem = "a"
    /\ last.outcome.status = "pass"

----------------------------------------------------------------------------
(* Paths, documents and the content source *)

\* a path or URL: scheme "" for a local path
LocalRoot == [scheme |-> "", host |-> "", file |-> "packages.json"]

RemoteRoot == [scheme |-> "https", host |-> "example.org", file |-> "packages.json"]

BAD_REPOS ==
    { [scheme |-> "https", host |-> "packages.monokai.pro", file |-> "packages.json"],
      [scheme |-> "https", host |-> "raw.githubusercontent.com",
       file |-> "package-control.json"] }

RootPaths ==
    { LocalRoot, RemoteRoot,
      [scheme |-> "https", host |-> "packages.monokai.pro", file |-> "packages.json"] }

\* re.match(r"https?://", path, re.I) is not None
IsRemote(path) == path.scheme \in {"http", "https"}

\* urljoin(path, include) for an include that names a file beside path, or
\* that is itself an absolute URL
urljoin(path, include) ==
    IF include.scheme # "" THEN include
    ELSE [scheme |-> path.scheme, host |-> path.host, file |-> include.file]

Relative(file) == [scheme |-> "", host |-> "", file |-> file]

\* the "includes" list of each file when it parses as a JSON object
IncludeTree(file) ==
    CASE file = "packages.json" -> <<Relative("x.json"), Relative("y.json")>>
      [] file = "x.json" -> <<Relative("z.json")>>
      [] OTHER -> <<>>

TagRelease == [keys |-> {"tags", "sublime_text"}]

UrlRelease == [keys |-> {"url", "version", "date", "sublime_text"}]

GoodPackage ==
    [keys |-> {"name", "releases"}, name |-> <<"a", "b">>, details |-> <<>>,
     releases |-> <<TagRelease, UrlRelease>>]

DetailsPackage ==
    [keys |-> {"details"}, name |-> <<>>,
     details |-> <<"https://github.com", "owner", <<"A", "c">> >>, releases |-> <<>>]

\* a package object with neither "name" nor "details"
NamelessPackage ==
    [keys |-> {"releases"}, name |-> <<>>, details |-> <<>>, releases |-> <<TagRelease>>]

\* an entry of a "dependencies" list
GoodDependency ==
    [keys |-> {"name", "releases"}, name |-> <<"A", "B">>, details |-> <<>>,
     releases |-> <<TagRelease>>]

PackageLists ==
    { <<GoodPackage>>, <<DetailsPackage, GoodPackage>>, <<NamelessPackage, GoodPackage>> }

SchemaVersions == {"3.0.0", "2.0", "1.2", "4.0", "3.0.0-beta"}

NotObject(kind) ==
    [kind |-> kind, keys |-> {}, schema_version |-> "", packages |-> <<>>, dependencies |-> <<>>,
     includes |-> <<>>]

IncludesKey(file) == IF Len(IncludeTree(file)) > 0 THEN {"includes"} ELSE {}

\* what the content source can hold for a file: a fetch error, bytes that
\* are not UTF-8, no bytes, text that is not JSON, or a JSON object
Docs(file) ==
    { NotObject(k) : k \in {"fetcherror", "badutf8", "empty", "badjson"} }
    \cup
    { [kind |-> "object", keys |-> {"packages"} \cup IncludesKey(file),
       schema_version |-> "", packages |-> <<GoodPackage>>, dependencies |-> <<>>,
       includes |-> IncludeTree(file)] }
    \cup
    { [kind |-> "object", keys |-> {"schema_version", "packages"} \cup IncludesKey(file),
       schema_version |-> v, packages |-> ps, dependencies |-> <<>>,
       includes |-> IncludeTree(file)] :
         v \in SchemaVersions, ps \in PackageLists }
    \cup
    { [kind |-> "object", keys |-> {"schema_version"} \cup IncludesKey(file),
       schema_version |-> "3.0.0", packages |-> <<>>, dependencies |-> <<>>,
       includes |-> IncludeTree(file)] }
    \cup
    { [kind |-> "object",
       keys |-> {"schema_version", "packages", "dependencies"} \cup IncludesKey(file),
       schema_version |-> "3.0.0", packages |-> <<GoodPackage>>,
       dependencies |-> <<GoodDependency>>, includes |-> IncludeTree(file)] }

\* float(schema): the value in tenths, or ok = FALSE for ValueError
Float(schema) ==
    CASE schema = "2.0" -> [ok |-> TRUE, tenths |-> 20]
      [] schema = "1.2" -> [ok |-> TRUE, tenths |-> 12]
      [] schema = "4.0" -> [ok |-> TRUE, tenths |-> 40]
      [] OTHER -> [ok |-> FALSE, tenths |-> 0]

\* a list of older versions that lacks 2.0
OldSchemasWithout20 == {10, 11, 12}

\* (1.0, 1.1, 1.2, 2.0) in tenths
OldSchemas == {10, 11, 12, 20}

----------------------------------------------------------------------------
(* TestContainer._include_tests: from its first line to the first yield of *)
(* the document body                                                       *)

Outcome(result, msg) == [result |-> result, msg |-> msg]

\* lines 668-721 without the test for a missing "schema_version" key:
\* data["schema_version"] raises KeyError
TriageNoKeyTest(path, doc) ==
    IF IsRemote(path) /\ doc.kind = "fetcherror" THEN Outcome("fail", "Downloading failed")
    ELSE IF IsRemote(path) /\ doc.kind = "badutf8" THEN Outcome("raise", "UnicodeDecodeError")
    ELSE IF ~IsRemote(path) /\ doc.kind \in {"fetcherror", "badutf8"}
    THEN Outcome("fail", "Opening failed")
    ELSE IF doc.kind = "empty" THEN Outcome("fail", "is empty")
    ELSE IF doc.kind = "badjson" THEN Outcome("fail", "Could not parse")
    ELSE IF "schema_version" \notin doc.keys THEN Outcome("raise", "KeyError")
    ELSE IF doc.schema_version # "3.0.0" /\ ~Float(doc.schema_version).ok
    THEN Outcome("raise", "ValueError")
    ELSE IF doc.schema_version # "3.0.0"
            /\ Float(doc.schema_version).tenths \notin OldSchemas
    THEN Outcome("fail", "Unrecognized schema version")
    ELSE IF path \in BAD_REPOS THEN Outcome("bad", "skipping (known bad repo)")
    ELSE IF doc.schema_version # "3.0.0" THEN Outcome("skip", "skipping (schema version)")
    ELSE Outcome("done", "done")

\* what lines 668-721 do with the document the content source returned:
\*   "fail"  yield cls._fail(msg) and return
\*   "raise" an exception leaves the generator
\*   "bad"   return (known bad repo)      "skip" return (older schema)
\*   "done"  go on to the checks of the document
Triage(path, doc) ==
    IF IsRemote(path) /\ doc.kind = "fetcherror" THEN Outcome("fail", "Downloading failed")
    ELSE IF IsRemote(path) /\ doc.kind = "badutf8" THEN Outcome("raise", "UnicodeDecodeError")
    ELSE IF ~IsRemote(path) /\ doc.kind \in {"fetcherror", "badutf8"}
    THEN Outcome("fail", "Opening failed")
    ELSE IF doc.kind = "empty" THEN Outcome("fail", "is empty")
    ELSE IF doc.kind = "badjson" THEN Outcome("fail", "Could not parse")
    ELSE IF "schema_version" \notin doc.keys THEN Outcome("fail", "No schema_version found")
    ELSE IF doc.schema_version # "3.0.0" /\ ~Float(doc.schema_version).ok
    THEN Outcome("raise", "ValueError")
    ELSE IF doc.schema_version # "3.0.0"
            /\ Float(doc.schema_version).tenths \notin OldSchemas
    THEN Outcome("fail", "Unrecognized schema version")
    ELSE IF path \in BAD_REPOS THEN Outcome("bad", "skipping (known bad repo)")
    ELSE IF doc.schema_version # "3.0.0" THEN Outcome("skip", "skipping (schema version)")
    ELSE Outcome("done", "done")

\* the finally clause: "failed" unless success was set
StreamText(outcome) ==
    IF outcome.result \in {"fail", "raise"} THEN "failed" ELSE outcome.msg

Frame(path) == [path |-> path, stage |-> "enter", i |-> 1, j |-> 1, k |-> 1]

Top == stack[Len(stack)]

Pop == SubSeq(stack, 1, Len(stack) - 1)

ReplaceTop(frame) == [stack EXCEPT ![Len(stack)] = frame]

\* the two positional arguments after the release in a main-index call
MainIndexMode == [dependency |-> FALSE, main_repo |-> TRUE]

\* lines 743-744: the arguments "False, False" after the release, which are
\* the parameters dependency and main_repo of _test_release
ResolverReleaseMode == [dependency |-> FALSE, main_repo |-> FALSE]

\* a yielded (method, params) pair: params are the path, the position of the
\* package and of the release in the document, the message of a deferred
\* failure and, for a release check, the two mode arguments
Check(method, path, package, release, msg) ==
    [method |-> method, path |-> path, package |-> package, release |-> release,
     msg |-> msg,
     mode |-> IF method = "_test_release" THEN ResolverReleaseMode
              ELSE [dependency |-> FALSE, main_repo |-> FALSE]]

Put(d, key, value) == [x \in DOMAIN d \cup {key} |-> IF x = key THEN value ELSE d[x]]

\* a consumer that puts each pair it receives in front of the earlier ones
YieldFirst(check) == <<check>> \o checks

\* yield: the consumer of the generator receives the pairs in the order in
\* which they are yielded
Yield(check) == Append(checks, check)

\* defaultdict(int)[key]
Count(d, key) == IF key \in DOMAIN d THEN d[key] ELSE 0

\* the generator returned: the caller's loop over its includes goes on
Return(rest) == /\ stack' = rest
                /\ status' = IF Len(rest) = 0 THEN "done" ELSE "running"

----------------------------------------------------------------------------
(* The walk of _include_tests over a document and its includes *)

InitResolver ==
    /\ package_names = EmptyDict
    /\ dependency_names = EmptyDict
    /\ previous_package_names = EmptyDict
    /\ last = NoCheck
    /\ nchecks = 0
    /\ source = <<>>
    /\ \E root \in RootPaths : stack = <<Frame(root)>>
    /\ checks = <<>>
    /\ stream = <<>>
    /\ skipped_repositories = <<>>
    /\ status = "running"
    /\ call = NoRelease
    /\ verdict = NoVerdict
    /\ IdleRuns

\* an exception leaves the innermost generator and every "yield from" above
Raise == /\ stack' = <<>>
         /\ status' = "raised"

\* lines 665-728: fetch, decode, parse, look at the schema version
IncludeTests ==
    /\ status = "running"
    /\ Top.stage = "enter"
    /\ \E doc \in Docs(Top.path.file) :
        LET o == Triage(Top.path, doc) IN
        /\ source' = Put(source, Top.path.file, doc)
        /\ stream' = stream \o <<[path |-> Top.path, text |-> "..."],
                                 [path |-> Top.path, text |-> StreamText(o)]>>
        /\ checks' =
             IF o.result = "fail"
             THEN Yield(Check("_test_error", Top.path, 0, 0, o.msg))
             ELSE IF o.result = "done"
             THEN Yield(Check("_test_repository_keys", Top.path, 0, 0, ""))
             ELSE checks
        /\ skipped_repositories' =
             IF o.result = "skip"
             THEN Put(skipped_repositories, doc.schema_version,
                      Count(skipped_repositories, doc.schema_version) + 1)
             ELSE skipped_repositories
        /\ IF o.result = "raise" THEN Raise
           ELSE IF o.result = "done"
           THEN /\ stack' = ReplaceTop([Top EXCEPT !.stage = "packages"])
                /\ UNCHANGED status
           ELSE Return(Pop)
    /\ UNCHANGED <<registryVars, releaseVars, runVars, harnessVars>>

\* lines 730-732: the next package of data["packages"], if any
YieldPackage ==
    /\ status = "running"
    /\ Top.stage = "packages"
    /\ LET doc == source[Top.path.file] IN
       IF "packages" \in doc.keys /\ Top.i <= Len(doc.packages)
       THEN /\ checks' = Yield(Check("_test_package", Top.path, Top.i, 0, ""))
            /\ stack' = ReplaceTop([Top EXCEPT !.stage = "name"])
       ELSE /\ checks' = checks
            /\ stack' = ReplaceTop([Top EXCEPT !.stage = "includes"])
    /\ UNCHANGED <<registryVars, releaseVars, runVars, harnessVars, source, stream, skipped_repositories, status>>

\* line 734: package_name = get_package_name(package)
PackageName ==
    /\ status = "running"
    /\ Top.stage = "name"
    /\ IF NameRaises(source[Top.path.file].packages[Top.i])
       THEN Raise
       ELSE /\ stack' = ReplaceTop([Top EXCEPT !.stage = "releases", !.j = 1])
            /\ UNCHANGED status
    /\ UNCHANGED <<registryVars, releaseVars, runVars, harnessVars, source, checks, stream, skipped_repositories>>

\* lines 736-748: the next release of the package, if any
YieldRelease ==
    /\ status = "running"
    /\ Top.stage = "releases"
    /\ LET package == source[Top.path.file].packages[Top.i] IN
       IF "releases" \in package.keys /\ Top.j <= Len(package.releases)
       THEN /\ checks' = Yield(Check("_test_release", Top.path, Top.i, Top.j, ""))
            /\ stack' = ReplaceTop([Top EXCEPT !.j = Top.j + 1])
       ELSE /\ checks' = checks
            /\ stack' = ReplaceTop([Top EXCEPT !.stage = "packages", !.i = Top.i + 1])
    /\ UNCHANGED <<registryVars, releaseVars, runVars, harnessVars, source, stream, skipped_repositories, status>>

\* lines 749-752: yield from the next include, or return
Include ==
    /\ status = "running"
    /\ Top.stage = "includes"
    /\ LET doc == source[Top.path.file] IN
       IF "includes" \in doc.keys /\ Top.k <= Len(doc.includes)
       THEN /\ stack' = Append(ReplaceTop([Top EXCEPT !.k = Top.k + 1]),
                               Frame(urljoin(Top.path, doc.includes[Top.k])))
            /\ UNCHANGED status
       ELSE Return(Pop)
    /\ UNCHANGED <<registryVars, releaseVars, runVars, harnessVars, source, checks, stream, skipped_repositories>>

NextResolver ==
    \/ IncludeTests
    \/ YieldPackage
    \/ PackageName
    \/ YieldRelease
    \/ Include

SpecResolver == InitResolver /\ [][NextResolver]_vars

----------------------------------------------------------------------------
(* Claims about the resolver *)

Visited == DOMAIN source

\* the path under which a visited file was resolved
VisitedPath(f) == stream[CHOOSE i \in DOMAIN stream : stream[i].path.file = f].path

LastVisited == stream[Len(stream)].path.file

ChecksFor(f) == { i \in DOMAIN checks : checks[i].path.file = f }

Children(f) == { IncludeTree(f)[i].file : i \in DOMAIN IncludeTree(f) }

Descendants(f) == Children(f) \cup UNION { Children(g) : g \in Children(f) }

\* g is the include that follows f in the includes list of some document
FollowsAsSibling(f, g) ==
    \E p \in {"packages.json", "x.json", "y.json", "z.json"} :
        \E i \in DOMAIN IncludeTree(p) :
            /\ i + 1 \in DOMAIN IncludeTree(p)
            /\ IncludeTree(p)[i].file = f
            /\ IncludeTree(p)[i + 1].file = g

OneFailingCheck(f) ==
    /\ Cardinality(ChecksFor(f)) = 1
    /\ \A i \in ChecksFor(f) : checks[i].method = "_test_error"

SubtreeUntouched(f) ==
    \A g \in Descendants(f) : g \notin Visited /\ ChecksFor(g) = {}

\* the document failed at fetch/open, is empty, is not JSON, or has no
\* schema_version
FailsEarly(f) ==
    \/ source[f].kind \in {"fetcherror", "empty", "badjson"}
    \/ source[f].kind = "object" /\ "schema_version" \notin source[f].keys

C4_InvalidUtf8Reported ==
    \A f \in Visited :
        source[f].kind = "badutf8"
        => /\ OneFailingCheck(f)
           /\ LastVisited = f => status # "raised"

RecognisedOld == {"2.0", "1.2"}

HasSchema(f, versions) ==
    /\ source[f].kind = "object"
    /\ "schema_version" \in source[f].keys
    /\ source[f].schema_version \in versions

\* C5: a schema_version that is neither "3.0.0" nor one of the older
\* versions, numeric or not, gets exactly one failing check, its includes are
\* not resolved and no exception leaves the resolver.
C5_UnrecognisedSchema ==
    \A f \in Visited :
        HasSchema(f, SchemaVersions \ ({"3.0.0"} \cup RecognisedOld))
        => /\ OneFailingCheck(f)
           /\ SubtreeUntouched(f)
           /\ LastVisited = f => status # "raised"

SkippedDocs(v, paths) ==
    { f \in Visited : HasSchema(f, {v}) /\ VisitedPath(f) \in paths }

AllPaths ==
    { [scheme |-> r.scheme, host |-> r.host, file |-> f] :
        r \in RootPaths, f \in {"packages.json", "x.json", "y.json", "z.json"} }

\* C6 as amended: a document with an older recognised schema_version whose
\* path is not a known bad repository yields no check, none of its includes
\* is resolved, and the counter of its version counts each such document once.
C6_SchemaSoftSkip ==
    /\ \A f \in Visited :
          (HasSchema(f, RecognisedOld) /\ VisitedPath(f) \notin BAD_REPOS)
          => ChecksFor(f) = {} /\ SubtreeUntouched(f)
    /\ \A v \in RecognisedOld :
          Count(skipped_repositories, v)
            = Cardinality(SkippedDocs(v, AllPaths \ BAD_REPOS))

\* C6 as stated: every document with an older recognised schema_version
C6_Original ==
    /\ \A f \in Visited :
          HasSchema(f, RecognisedOld) => ChecksFor(f) = {} /\ SubtreeUntouched(f)
    /\ \A v \in RecognisedOld :
          Count(skipped_repositories, v) = Cardinality(SkippedDocs(v, AllPaths))

\* two documents of version 2.0 were skipped, one of them with an include
C6_Witness ==
    /\ status = "done"
    /\ "x.json" \in Visited
    /\ HasSchema("x.json", {"2.0"})
    /\ "y.json" \in Visited
    /\ HasSchema("y.json", {"2.0"})
    /\ Count(skipped_repositories, "2.0") = 2
    /\ ChecksFor("x.json") = {}
    /\ "z.json" \notin Visited

HasMalformedPackage(f) ==
    /\ source[f].kind = "object"
    /\ \E i \in DOMAIN source[f].packages : NameRaises(source[f].packages[i])

\* C7: in a document that is checked and holds a package with neither "name"
\* nor "details", every package and release still gets its check and every
\* include is still resolved by the time the walk ends.
C7_PackageIsolation ==
    \A f \in Visited :
        (/\ HasMalformedPackage(f)
         /\ \E c \in ChecksFor(f) : checks[c].method = "_test_repository_keys"
         /\ status # "running")
        => /\ \A i \in DOMAIN source[f].packages :
                 /\ \E c \in ChecksFor(f) :
                       checks[c].method = "_test_package" /\ checks[c].package = i
                 /\ \A j \in DOMAIN source[f].packages[i].releases :
                       \E c \in ChecksFor(f) :
                          /\ checks[c].method = "_test_release"
                          /\ checks[c].package = i
                          /\ checks[c].release = j
           /\ Children(f) \subseteq Visited

----------------------------------------------------------------------------
(* Release objects *)

\* a url value, by what precedes "://"
UrlValues == { [scheme |-> "https"], [scheme |-> "http"], [scheme |-> "ftp"] }

\* str.startswith / a regex anchored at "^" followed by a scheme and "://"
StartsWithScheme(url, schemes) == url.scheme \in schemes

\* a platform string, split at the first "-": "osx-x64" is os "osx", arch
\* "x64"; "*" is os "*", arch ""
PlatformStrings ==
    [os : {"*", "osx", "linux", "windows"}, arch : {"", "x32", "x64", "arm64"}]

Platform(os, arch) == [os |-> os, arch |-> arch]

\* a "platforms" value is a string or a list of strings; the field of the
\* other type is unused
Str(p) == [type |-> "str", str |-> p, list |-> <<>>]

List(ps) == [type |-> "list", str |-> Platform("", ""), list |-> ps]

SublimeTextValues == {"*", ">=4000", "4"}

\* re: ^(\*|<=?\d{4}|>=?\d{4}|\d{4} - \d{4})$
SublimeTextMatches(v) == v \in {"*", ">=4000"}

\* re: ^(\*|(osx|linux|windows)(-(x(32|64)|arm64))?)$
PlatformMatches(plat) ==
    \/ plat.os = "*" /\ plat.arch = ""
    \/ plat.os \in {"osx", "linux", "windows"} /\ plat.arch \in {"", "x32", "x64", "arm64"}

pck_release_keys ==
    {"base", "tags", "branch", "sublime_text", "platforms", "dependencies", "version",
     "date", "url"}

dep_release_keys ==
    {"base", "tags", "branch", "sublime_text", "platforms", "version", "sha256", "url"}

\* ("url", "version") of line 495 and of line 523, without "date"
ExplicitKeysWithoutDate == {"url", "version"}

\* ("url", "version", "date")
ExplicitKeys == {"url", "version", "date"}

----------------------------------------------------------------------------
(* TestContainer._test_release and check_release_key_values *)

\* lines 469-538: "pass", or the assertion that failed first
KeyStage(data, dependency, main_repo) ==
    LET has(k) == k \in data.keys IN
    IF main_repo /\ dependency
       /\ ~((has("base") /\ (has("tags") \/ has("branch")))
            \/ (has("sha256")
                /\ (~has("url") \/ StartsWithScheme(data.url, {"http"}))))
    THEN "base and tags or branch required"
    ELSE IF main_repo /\ ~dependency /\ ~(has("tags") \/ has("branch"))
    THEN "tags or branch required"
    ELSE IF main_repo /\ ~dependency /\ ExplicitKeys \cap data.keys # {}
    THEN "explicit key in the main repository"
    ELSE IF ~main_repo /\ ~has("tags") /\ ~has("branch") /\ dependency
            /\ ~({"url", "version"} \subseteq data.keys)
    THEN "url and version required"
    ELSE IF ~main_repo /\ ~has("tags") /\ ~has("branch") /\ ~dependency
            /\ ~(ExplicitKeys \subseteq data.keys)
    THEN "url, version and date required"
    ELSE IF ~main_repo /\ (has("tags") \/ has("branch")) /\ ExplicitKeys \cap data.keys # {}
    THEN "redundant key"
    ELSE IF ~has("sublime_text") THEN "sublime_text required"
    ELSE IF dependency /\ ~has("platforms") THEN "platforms required"
    ELSE IF has("tags") /\ has("branch") THEN "only one of tags or branch"
    ELSE "pass"

\* if isinstance(v, str): v = [v]
AsList(v) == IF v.type = "str" THEN <<v.str>> ELSE v.list

Range(seq) == { seq[i] : i \in DOMAIN seq }

\* lines 576-598 without the assertCountEqual of line 582
PlatformsOkRepeated(v) ==
    LET l == AsList(v) IN
    /\ \A i \in DOMAIN l : PlatformMatches(l[i])
    /\ ~(\/ {Platform("osx", a) : a \in {"x32", "x64", "arm64"}} \subseteq Range(l)
         \/ {Platform("windows", a) : a \in {"x32", "x64", "arm64"}} \subseteq Range(l)
         \/ {Platform("linux", a) : a \in {"x32", "x64", "arm64"}} \subseteq Range(l))
    /\ {Platform("osx", ""), Platform("windows", ""), Platform("linux", "")} # Range(l)

\* lines 576-598
PlatformsOk(v) ==
    LET l == AsList(v) IN
    /\ \A i \in DOMAIN l : PlatformMatches(l[i])
    \* assertCountEqual(v, list(set(v)))
    /\ Cardinality(Range(l)) = Len(l)
    /\ ~(\/ {Platform("osx", a) : a \in {"x32", "x64", "arm64"}} \subseteq Range(l)
         \/ {Platform("windows", a) : a \in {"x32", "x64", "arm64"}} \subseteq Range(l)
         \/ {Platform("linux", a) : a \in {"x32", "x64", "arm64"}} \subseteq Range(l))
    /\ {Platform("osx", ""), Platform("windows", ""), Platform("linux", "")} # Range(l)

\* a url check that looks for "://" after any scheme
UrlOkAnyScheme(data, dependency) == StartsWithScheme(data.url, {"http", "https", "ftp"})

\* lines 549-556
UrlOk(data, dependency) ==
    IF dependency
    THEN IF "sha256" \notin data.keys
         THEN StartsWithScheme(data.url, {"https"})
         ELSE StartsWithScheme(data.url, {"http"})
    ELSE StartsWithScheme(data.url, {"http", "https"})

\* lines 543-615 for a release whose values have the mapped types and whose
\* base, date, tags, branch and sha256 values match their patterns
check_release_key_values(data, dependency) ==
    IF /\ data.keys \subseteq (IF dependency THEN dep_release_keys ELSE pck_release_keys)
       /\ "url" \in data.keys => UrlOk(data, dependency)
       /\ "sublime_text" \in data.keys => SublimeTextMatches(data.sublime_text)
       /\ "platforms" \in data.keys => PlatformsOk(data.platforms)
    THEN "pass"
    ELSE "fail"

_test_release(data, dependency, main_repo) ==
    IF KeyStage(data, dependency, main_repo) # "pass"
    THEN [keys |-> KeyStage(data, dependency, main_repo), values |-> "none"]
    ELSE [keys |-> "pass", values |-> check_release_key_values(data, dependency)]

----------------------------------------------------------------------------
(* One call of _test_release *)

\* longest "platforms" list drawn
MaxPlatforms == 3

PlatformSamples ==
    { Str(Platform("*", "")),
      List(<<Platform("osx", ""), Platform("windows", ""), Platform("linux", "")>>),
      List(<<Platform("osx", "x64"), Platform("osx", "arm64")>>) }

ReleaseKeys ==
    {"base", "tags", "branch", "sublime_text", "platforms", "version", "date", "url",
     "sha256"}

\* a release object: the keys it has, and the values of those the checks read
Release(keys, url, sublime_text, platforms) ==
    [keys |-> keys, url |-> url, sublime_text |-> sublime_text, platforms |-> platforms]

Releases ==
    { Release(keys, url, st, plat) :
        keys \in SUBSET ReleaseKeys, url \in UrlValues, st \in SublimeTextValues,
        plat \in PlatformSamples }

PlatformValues ==
    { Str(p) : p \in PlatformStrings }
        \cup { List(ps) : ps \in SeqsUpTo(PlatformStrings, MaxPlatforms) }

\* releases of a repository outside the main index that differ in "platforms" only
PlatformReleases ==
    { Release({"tags", "sublime_text", "platforms"}, [scheme |-> "https"], "*", v) :
        v \in PlatformValues }

InitIdle ==
    /\ package_names = EmptyDict
    /\ dependency_names = EmptyDict
    /\ previous_package_names = EmptyDict
    /\ last = NoCheck
    /\ nchecks = 0
    /\ source = <<>>
    /\ stack = <<>>
    /\ checks = <<>>
    /\ stream = <<>>
    /\ skipped_repositories = <<>>
    /\ status = "done"
    /\ verdict = NoVerdict
    /\ IdleRuns

InitRelease ==
    /\ InitIdle
    /\ \E data \in Releases, dependency \in BOOLEAN, main_repo \in BOOLEAN :
         call = [data |-> data, dependency |-> dependency, main_repo |-> main_repo]

InitPlatforms ==
    /\ InitIdle
    /\ \E data \in PlatformReleases, dependency \in BOOLEAN :
         call = [data |-> data, dependency |-> dependency, main_repo |-> FALSE]

TestRelease ==
    /\ verdict = NoVerdict
    /\ verdict' = _test_release(call.data, call.dependency, call.main_repo)
    /\ UNCHANGED <<registryVars, walkVars, runVars, harnessVars, call>>

SpecRelease == InitRelease /\ [][TestRelease]_vars

SpecPlatforms == InitPlatforms /\ [][TestRelease]_vars

----------------------------------------------------------------------------
(* Claims about release objects *)

Has(k) == k \in call.data.keys

NoExplicit == ~Has("url") /\ ~Has("version") /\ ~Has("date")

AllExplicit == Has("url") /\ Has("version") /\ Has("date")

\* C8: a package release passes the required/forbidden-key stage exactly
\* when "sublime_text" is present, "tags" and "branch" are not both present,
\* and (a) in main-index mode one of "tags"/"branch" is present and none of
\* "url"/"version"/"date" is; (b) outside it, with neither "tags" nor
\* "branch", all of "url"/"version"/"date" are present; (c) outside it, with
\* "tags" or "branch", none of "url"/"version"/"date" is present.
C8_ReleaseKeyStage ==
    (verdict # NoVerdict /\ ~call.dependency) =>
        ((verdict.keys = "pass") <=>
            /\ Has("sublime_text")
            /\ ~(Has("tags") /\ Has("branch"))
            /\ IF call.main_repo
               THEN (Has("tags") \/ Has("branch")) /\ NoExplicit
               ELSE IF ~Has("tags") /\ ~Has("branch")
                    THEN AllExplicit
                    ELSE NoExplicit)

\* a package release outside the main index with "url", "version", "date"
\* and "sublime_text" and neither "tags" nor "branch" passed the key stage
C8_Witness ==
    /\ ~call.dependency
    /\ ~call.main_repo
    /\ call.data.keys = {"url", "version", "date", "sublime_text"}
    /\ verdict.keys = "pass"

Entries == AsList(call.data.platforms)

HasEntry(os, arch) == \E i \in DOMAIN Entries : Entries[i] = Platform(os, arch)

Allowed(p) ==
    p \in { Platform("*", "") }
            \cup { Platform(os, arch) : os \in {"osx", "linux", "windows"},
                                        arch \in {"", "x32", "x64", "arm64"} }

----------------------------------------------------------------------------
(* The channel run and the repository run *)

\* registry checks of the two runs together
MaxRunChecks == 2

\* setUpClass is a classmethod reached through super().setUpClass(): cls is
\* the test class itself, and "cls.package_names = ..." sets the attribute
\* on that class object
AttrOwnerShared(cls) == "TestContainer"

AttrOwner(cls) == cls

\* lines 157-160: three fresh dictionaries
Fresh ==
    [set |-> TRUE, package_names |-> EmptyDict, dependency_names |-> EmptyDict,
     previous_package_names |-> EmptyDict]

\* self.package_names: the attribute of the class, or else of its base
Holder(cls) == IF attrs[cls].set THEN cls ELSE "TestContainer"

InitRuns ==
    /\ package_names = EmptyDict
    /\ dependency_names = EmptyDict
    /\ previous_package_names = EmptyDict
    /\ last = NoCheck
    /\ nchecks = 0
    /\ source = <<>>
    /\ stack = <<>>
    /\ checks = <<>>
    /\ stream = <<>>
    /\ skipped_repositories = <<>>
    /\ status = "done"
    /\ call = NoRelease
    /\ verdict = NoVerdict
    /\ IdleRuns

\* ChannelTests.setUpClass / RepositoryTests.setUpClass
SetUpClass(cls) ==
    /\ ~alone[cls].set
    /\ attrs' = [attrs EXCEPT ![AttrOwner(cls)] = Fresh]
    /\ alone' = [alone EXCEPT ![cls] = Fresh]
    /\ UNCHANGED <<registryVars, walkVars, releaseVars, harnessVars, ran>>

\* the three checks, applied to a registry
RunPackageNames(reg, include, pdatas) ==
    LET r == _test_repository_package_names(include, pdatas, reg.package_names,
                 reg.previous_package_names, reg.dependency_names) IN
    [reg |-> [reg EXCEPT !.package_names = r.package_names], outcome |-> r.outcome]

RunDependencyNames(reg, include, ddatas) ==
    LET r == _test_dependency_names(include, ddatas, reg.dependency_names,
                 reg.package_names) IN
    [reg |-> [reg EXCEPT !.dependency_names = r.dependency_names], outcome |-> r.outcome]

RunPackage(reg, include, data) ==
    LET r == _test_package(include, data, reg.previous_package_names,
                 reg.package_names) IN
    [reg |-> [reg EXCEPT !.previous_package_names = r.previous_package_names],
     outcome |-> r.outcome]

\* one test method of cls: it reads and updates the dictionaries found
\* through self
Ran(cls, op, here, solo) ==
    /\ attrs' = [attrs EXCEPT ![Holder(cls)] = here.reg]
    /\ alone' = [alone EXCEPT ![cls] = solo.reg]
    /\ ran' = [cls |-> cls, op |-> op, outcome |-> here.outcome, alone |-> solo.outcome]
    /\ UNCHANGED <<package_names, dependency_names, previous_package_names, last,
                   walkVars, releaseVars, harnessVars>>

ClassPackageNames(cls) ==
    \E include \in Includes, pdatas \in SeqsUpTo(Entities, MaxNames) :
        Ran(cls, "package_names",
            RunPackageNames(attrs[Holder(cls)], include, pdatas),
            RunPackageNames(alone[cls], include, pdatas))

ClassDependencyNames(cls) ==
    \E include \in Includes, ddatas \in SeqsUpTo(Entities, MaxNames) :
        Ran(cls, "dependency_names",
            RunDependencyNames(attrs[Holder(cls)], include, ddatas),
            RunDependencyNames(alone[cls], include, ddatas))

ClassPackage(cls) ==
    \E include \in Includes, data \in PackageObjects :
        Ran(cls, "package",
            RunPackage(attrs[Holder(cls)], include, data),
            RunPackage(alone[cls], include, data))

ClassCheck(cls) ==
    /\ alone[cls].set
    /\ nchecks < MaxRunChecks
    /\ nchecks' = nchecks + 1
    /\ \/ ClassPackageNames(cls)
       \/ ClassDependencyNames(cls)
       \/ ClassPackage(cls)

NextRuns == \E cls \in TestClasses : SetUpClass(cls) \/ ClassCheck(cls)

SpecRuns == InitRuns /\ [][NextRuns]_vars

----------------------------------------------------------------------------
(* Claims about the two runs *)

\* C11: under any interleaving of the checks of the channel run and the
\* repository run, the registry a run reads is the one it would have had
\* running alone (no name of the other run is visible in it), and the
\* outcome of each check is the outcome it would have had running alone.
C11_RunIndependence ==
    /\ \A cls \in TestClasses : alone[cls].set => attrs[Holder(cls)] = alone[cls]
    /\ ran.outcome = ran.alone

\* the repository run passed a package-name check for a file declaring "ab"
\* after the channel run had registered "ab"
C11_Witness ==
    /\ ran.cls = "RepositoryTests"
    /\ ran.op = "package_names"
    /\ ran.outcome = Passed
    /\ Contains(attrs["ChannelTests"].package_names, <<"a", "b">>)
    /\ Contains(attrs["RepositoryTests"].package_names, <<"a", "b">>)

----------------------------------------------------------------------------
(* Claims about the checks the resolver emits *)

ReleaseChecks == { c \in DOMAIN checks : checks[c].method = "_test_release" }

\* the release object a release check was yielded with
ReleaseOf(c) ==
    source[checks[c].path.file].packages[checks[c].package].releases[checks[c].release]

\* what the key stage of the yielded check decides
KeyVerdict(c) ==
    KeyStage(ReleaseOf(c), checks[c].mode.dependency, checks[c].mode.main_repo)

Keys(c) == ReleaseOf(c).keys

NoExplicitIn(keys) == keys \cap {"url", "version", "date"} = {}

\* C12 as amended: every release check that _include_tests emits is run as
\* not-a-dependency and outside main-index mode: it passes the key stage
\* exactly when "sublime_text" is present, "tags" and "branch" are not both
\* present, and "url", "version" and "date" are all present when neither
\* "tags" nor "branch" is, and all absent otherwise.
C12_ResolverReleaseMode ==
    \A c \in ReleaseChecks :
        /\ ~checks[c].mode.dependency
        /\ ~checks[c].mode.main_repo
        /\ (KeyVerdict(c) = "pass") <=>
              /\ "sublime_text" \in Keys(c)
              /\ ~({"tags", "branch"} \subseteq Keys(c))
              /\ IF Keys(c) \cap {"tags", "branch"} = {}
                 THEN {"url", "version", "date"} \subseteq Keys(c)
                 ELSE NoExplicitIn(Keys(c))

\* C12 as stated: every release check that _include_tests emits is run in
\* main-index mode and as not-a-dependency: one of "tags"/"branch" is
\* required and "url", "version", "date" are forbidden.
C12_Original ==
    \A c \in ReleaseChecks :
        /\ ~checks[c].mode.dependency
        /\ checks[c].mode.main_repo
        /\ (KeyVerdict(c) = "pass") <=>
              /\ "sublime_text" \in Keys(c)
              /\ ~({"tags", "branch"} \subseteq Keys(c))
              /\ Keys(c) \cap {"tags", "branch"} # {}
              /\ NoExplicitIn(Keys(c))

\* a release with "url", "version", "date" and neither "tags" nor "branch"
\* got its check, and the check lets it through the key stage
C12_Witness ==
    \E c \in ReleaseChecks :
        /\ Keys(c) = {"url", "version", "date", "sublime_text"}
        /\ KeyVerdict(c) = "pass"

Done(f) == f \in Visited /\ Triage(VisitedPath(f), source[f]).result = "done"

Emitted(f, method, i, j) ==
    \E c \in ChecksFor(f) :
        /\ checks[c].method = method
        /\ checks[c].package = i
        /\ checks[c].release = j

ReleasesOf(entity) == IF "releases" \in entity.keys THEN entity.releases ELSE <<>>

\* C13: when the walk is over, every schema-3.0.0 document it went into has
\* an entity check for each package and each dependency, a release check for
\* each release of each of them, and the checks that consult and populate
\* the registry with the package names and the dependency names.
C13_ResolverCoverage ==
    status = "done" =>
        \A f \in Visited :
            Done(f) =>
                /\ \A i \in DOMAIN source[f].packages :
                     /\ Emitted(f, "_test_package", i, 0)
                     /\ \A j \in DOMAIN ReleasesOf(source[f].packages[i]) :
                          Emitted(f, "_test_release", i, j)
                /\ \A i \in DOMAIN source[f].dependencies :
                     /\ Emitted(f, "_test_dependency", i, 0)
                     /\ \A j \in DOMAIN ReleasesOf(source[f].dependencies[i]) :
                          \E c \in ChecksFor(f) :
                              /\ checks[c].method = "_test_release"
                              /\ checks[c].mode.dependency
                              /\ checks[c].release = j
                /\ Emitted(f, "_test_repository_package_names", 0, 0)
                /\ "dependencies" \in source[f].keys
                     => Emitted(f, "_test_dependency_names", 0, 0)

\* position of a check among the checks of its own document
Before(c, d) ==
    \/ checks[c].package < checks[d].package
    \/ checks[c].package = checks[d].package /\ checks[c].release < checks[d].release

Subtree(f) == {f} \cup Descendants(f)

ChecksUnder(f) == UNION { ChecksFor(g) : g \in Subtree(f) }

\* C14: the checks come out depth-first in document order: within one
\* document the key check, then each package's check followed by its release
\* checks, packages and releases in list order; every check of a document
\* before every check of the documents it includes; and the whole subtree of
\* an include before any check of the next include.
C14_TraversalOrder ==
    \A f \in Visited :
        /\ \A c, d \in ChecksFor(f) : c < d => Before(c, d)
        /\ \A c \in ChecksFor(f) :
             /\ \A d \in UNION { ChecksUnder(g) : g \in Children(f) } : c < d
             /\ checks[c].method =
                  IF checks[c].release > 0 THEN "_test_release"
                  ELSE IF checks[c].package > 0 THEN "_test_package"
                  ELSE IF Done(f) THEN "_test_repository_keys"
                  ELSE "_test_error"
        /\ \A a, b \in DOMAIN IncludeTree(f) :
             a < b => \A c \in ChecksUnder(IncludeTree(f)[a].file),
                         d \in ChecksUnder(IncludeTree(f)[b].file) : c < d

\* the walk is over; packages.json, x.json, z.json and y.json each got
\* checks, x.json for two packages and two releases of one package
C14_Witness ==
    /\ status = "done"
    /\ \A f \in {"packages.json", "x.json", "y.json", "z.json"} :
         f \in Visited /\ Emitted(f, "_test_repository_keys", 0, 0)
    /\ Emitted("x.json", "_test_release", 2, 2)
    /\ Emitted("z.json", "_test_release", 1, 2)

----------------------------------------------------------------------------
(* Claims about release values *)

Scheme == call.data.url.scheme

\* C15 as amended: a release with a "url" passes only if the url starts with
\* "http://" or "https://" for a package release, with "https://" for a
\* dependency release without "sha256", and with "http://" for a dependency
\* release with "sha256".
C15_UrlScheme ==
    (Has("url") /\ verdict.values = "pass") =>
        IF ~call.dependency THEN Scheme \in {"http", "https"}
        ELSE IF Has("sha256") THEN Scheme = "http"
        ELSE Scheme = "https"

\* C15 as stated: a release with a "url" passes only if the url starts with
\* "https://", or with "http://" for a dependency release with "sha256"; a
\* package release url starting with "http://" is rejected.
C15_Original ==
    (Has("url") /\ verdict.values = "pass") =>
        IF call.dependency /\ Has("sha256") THEN Scheme = "http"
        ELSE Scheme = "https"

\* a package release with an "http://" url passed
C15_Witness ==
    /\ ~call.dependency
    /\ Has("url")
    /\ Scheme = "http"
    /\ verdict.values = "pass"

----------------------------------------------------------------------------
(* Claims about the life of a registry entry *)

\* every key of d is a key of e with the same value
Keeps(d, e) == \A k \in DOMAIN d : k \in DOMAIN e /\ e[k] = d[k]

\* C16: within one run no check, passing or failing, removes a key from
\* package_names, dependency_names or previous_package_names or replaces the
\* provenance stored for it at its first registration.
C16_RegistryMonotone ==
    [][/\ Keeps(package_names, package_names')
       /\ Keeps(dependency_names, dependency_names')
       /\ Keeps(previous_package_names, previous_package_names')]_vars

\* a check was handed, from another file, a name whose key was already in
\* the mapping it writes, and a name that was new: the old entry has its
\* first provenance, the new one was added
C16_Witness ==
    /\ last.op = "package_names"
    /\ Len(last.data) = 2
    /\ \E i, j \in DOMAIN last.data :
         /\ ~NameRaises(last.data[i])
         /\ ~NameRaises(last.data[j])
         /\ Contains(last.pre.package_names, get_package_name(last.data[j]))
         /\ GetItem(last.pre.package_names, get_package_name(last.data[j])) # last.include
         /\ GetItem(package_names, get_package_name(last.data[j]))
              = GetItem(last.pre.package_names, get_package_name(last.data[j]))
         /\ ~Contains(last.pre.package_names, get_package_name(last.data[i]))
         /\ Contains(package_names, get_package_name(last.data[i]))

----------------------------------------------------------------------------
(* generate_test_methods *)

\* yields of all generators of one class together
MaxYields == 3

\* len(string) > 1000
MaxPrinted == 1000

\* a name, as the parts that the prefix tests tell apart
StartsWith(s, prefix) == Len(s) >= Len(prefix) /\ SubSeq(s, 1, Len(prefix)) = prefix

\* methods a generator can yield: _test_package, test_package, check
Methods == { <<"_", "test", "_", "package">>, <<"test", "_", "package">>, <<"check">> }

\* a parameter value: its repr() and the length of that
ParamValues ==
    { [repr |-> "'a.json'", len |-> 8],
      [repr |-> "{1000 characters}", len |-> 1000],
      [repr |-> "{1001 characters}", len |-> 1001],
      [repr |-> "{2000 characters}", len |-> 2000] }

\* lines 96-102
Printed(v) == IF v.len > MaxPrinted THEN "..." ELSE v.repr

\* lines 104-108
TestMethodName(mname) ==
    IF StartsWith(mname, <<"_", "test">>) THEN Tail(mname)
    ELSE IF ~StartsWith(mname, <<"test", "_">>) THEN <<"test", "_">> \o mname
    ELSE mname

\* an attribute name: a plain name, or line 111's "mname(args)"
Plain(n) == [mname |-> n, call |-> FALSE, args |-> <<>>]

TestName(method, params) ==
    [mname |-> TestMethodName(method), call |-> TRUE,
     args |-> [i \in DOMAIN params |-> Printed(params[i])]]

Generator == [kind |-> "generator", method |-> <<>>, params |-> <<>>]

Function == [kind |-> "function", method |-> <<>>, params |-> <<>>]

\* lines 90-92: wrapper with method and params bound as defaults
Wrapper(method, params) == [kind |-> "wrapper", method |-> method, params |-> params]

\* the attributes of a class before it is decorated, in definition order
ClassBodies ==
    { << <<Plain(<<"test", "_", "indentation">>), Function>>,
         <<Plain(<<"generate", "_", "include", "_", "tests">>), Generator>> >>,
      << <<Plain(<<"generate", "_", "repository", "_", "tests">>), Generator>>,
         <<Plain(<<"generate", "_", "include", "_", "tests">>), Generator>> >> }

SetAttr(d, n, value) == [x \in DOMAIN d \cup {n} |-> IF x = n THEN value ELSE d[x]]

DelAttr(d, n) == [x \in DOMAIN d \ {n} |-> d[x]]

InitHarness ==
    /\ package_names = EmptyDict
    /\ dependency_names = EmptyDict
    /\ previous_package_names = EmptyDict
    /\ last = NoCheck
    /\ nchecks = 0
    /\ source = <<>>
    /\ stack = <<>>
    /\ checks = <<>>
    /\ stream = <<>>
    /\ skipped_repositories = <<>>
    /\ status = "done"
    /\ call = NoRelease
    /\ verdict = NoVerdict
    /\ attrs = [c \in ClassObjects |-> Unset]
    /\ alone = [c \in TestClasses |-> Unset]
    /\ ran = NoRun
    /\ \E body \in ClassBodies :
         /\ cls_dict = [n \in { body[i][1] : i \in DOMAIN body } |->
                          body[CHOOSE i \in DOMAIN body : body[i][1] = n][2]]
         \* line 78: for name in list(cls.__dict__.keys())
         /\ todo = [i \in DOMAIN body |-> body[i][1]]
    /\ loop_name = <<>>
    /\ yielded = <<>>
    /\ at = "names"

\* lines 79-81: names that do not start with "generate_", or are not
\* callable, are passed over
IsGenerator(n) ==
    /\ ~n.call
    /\ StartsWith(n.mname, <<"generate", "_">>)
    /\ cls_dict[n].kind = "generator"

\* line 78: the outer loop binds the next name
NextName ==
    /\ at = "names"
    /\ Len(todo) > 0
    /\ loop_name' = Head(todo)
    /\ todo' = Tail(todo)
    /\ at' = IF IsGenerator(Head(todo)) THEN "yields" ELSE "names"
    /\ UNCHANGED <<registryVars, walkVars, releaseVars, runVars, cls_dict, yielded>>

\* lines 87-112: one yield of the generator; the new attribute name is
\* assigned to the variable "name"
YieldCall ==
    /\ at = "yields"
    /\ Len(yielded) < MaxYields
    /\ \E method \in Methods, v \in ParamValues :
         /\ yielded' = Append(yielded, [method |-> method, params |-> <<v>>])
         /\ loop_name' = TestName(method, <<v>>)
         /\ cls_dict' = SetAttr(cls_dict, TestName(method, <<v>>), Wrapper(method, <<v>>))
    /\ UNCHANGED <<registryVars, walkVars, releaseVars, runVars, todo, at>>

\* lines 114-115: the generator is exhausted; delattr(cls, name)
Exhausted ==
    /\ at = "yields"
    /\ cls_dict' = DelAttr(cls_dict, loop_name)
    /\ at' = "names"
    /\ UNCHANGED <<registryVars, walkVars, releaseVars, runVars, todo, loop_name, yielded>>

\* line 117: return cls
ReturnCls ==
    /\ at = "names"
    /\ Len(todo) = 0
    /\ at' = "returned"
    /\ UNCHANGED <<registryVars, walkVars, releaseVars, runVars, cls_dict, todo, loop_name,
                   yielded>>

NextHarness == NextName \/ YieldCall \/ Exhausted \/ ReturnCls

SpecHarness == InitHarness /\ [][NextHarness]_vars

----------------------------------------------------------------------------
(* Claims about generate_test_methods *)

Installed == { n \in DOMAIN cls_dict : cls_dict[n].kind = "wrapper" }

\* C17: when generate_test_methods has returned, every (method, params)
\* pair that a generator yielded is installed on the class as its own test
\* method, so there are as many generated tests as yields.
C17_NoCheckLost ==
    at = "returned" =>
        /\ Cardinality(Installed) = Len(yielded)
        /\ \A i \in DOMAIN yielded :
             \E n \in Installed :
                 /\ cls_dict[n].method = yielded[i].method
                 /\ cls_dict[n].params = yielded[i].params

----------------------------------------------------------------------------
(* Claims about what a name-set check leaves in the registry *)

\* the names of the entities of the file the last check was given
DeclaredNames ==
    { get_package_name(last.data[i]) : i \in { j \in DOMAIN last.data : ~NameRaises(last.data[j]) } }

\* C18: after _test_repository_package_names has run for a file, whatever
\* its outcome, every package name declared in the file is a key of
\* package_names; after _test_dependency_names, every dependency name of the
\* file is a key of dependency_names.
C18_NamesRegistered ==
    /\ last.op = "package_names" => \A n \in DeclaredNames : Contains(package_names, n)
    /\ last.op = "dependency_names" => \A n \in DeclaredNames : Contains(dependency_names, n)

====
